---- MODULE Spec2Model ----
(***************************************************************************)
(* Model of the create-video API route of rdtt.fun (Remotion Lambda        *)
(* version, src/unnamed/part_007): the pure helpers normalizeWord,         *)
(* srtTimeToSeconds, calculateHookEndFrame, and the request handler.       *)
(*                                                                         *)
(* Strings that the code inspects character by character (hook text,       *)
(* subtitle text, SRT timestamps) are tuples of one-character strings.     *)
(* Times are integer milliseconds; a frame is floor(ms * FPS / 1000).      *)
(* For end times below 3.85 s (all times of this model) the IEEE double    *)
(* arithmetic of the code gives the same frame as the integer arithmetic.  *)
(***************************************************************************)
EXTENDS Integers, Sequences, FiniteSets, TLC

\* ------------------------------------------------------------------ bounds
MaxWordLen == 3
MaxHookLen == 3
MaxEntries == 3

\* ------------------------------------------------------- program constants
FPS == 30
HookEndDelayMs == 250

\* ---------------------------------------------------------- value markers
\* Times are non-negative, so two negative numbers stand for the results
\* that are not times: NaN, and a TypeError thrown by parts[2].split.
NaN == 0 - 1
TypeError == 0 - 2

\* --------------------------------------------------------- character model
WhitespaceChars == {" "}
TrailingPunct == {".", ",", "!", "?", ";", ":"}

toLowerCaseChar(c) ==
  CASE c = "A" -> "a"
    [] c = "B" -> "b"
    [] OTHER -> c

toLowerCase(s) == [i \in 1..Len(s) |-> toLowerCaseChar(s[i])]

RECURSIVE trimStart(_)
trimStart(s) ==
  IF s # <<>> /\ Head(s) \in WhitespaceChars THEN trimStart(Tail(s)) ELSE s

RECURSIVE trimEnd(_)
trimEnd(s) ==
  IF s # <<>> /\ s[Len(s)] \in WhitespaceChars
  THEN trimEnd(SubSeq(s, 1, Len(s) - 1))
  ELSE s

trim(s) == trimEnd(trimStart(s))

\* String.prototype.replace(/[.,!?;:]$/, ''): removes one punctuation
\* character if it is the last character of the string.
replaceTrailingPunct(s) ==
  IF s # <<>> /\ s[Len(s)] \in TrailingPunct
  THEN SubSeq(s, 1, Len(s) - 1)
  ELSE s

normalizeWord(word) ==
  IF word = <<>> THEN <<>> ELSE replaceTrailingPunct(toLowerCase(trim(word)))

\* Index of the first character of s that is in set cs, 0 if none.
RECURSIVE indexOfAny(_, _, _)
indexOfAny(s, cs, from) ==
  IF from > Len(s) THEN 0
  ELSE IF s[from] \in cs THEN from
  ELSE indexOfAny(s, cs, from + 1)

\* Index of the first character at or after from that is not in cs,
\* Len(s) + 1 if none.
RECURSIVE indexOfNone(_, _, _)
indexOfNone(s, cs, from) ==
  IF from > Len(s) THEN Len(s) + 1
  ELSE IF s[from] \notin cs THEN from
  ELSE indexOfNone(s, cs, from + 1)

\* String.prototype.split(/\s+/)
RECURSIVE splitWhitespace(_)
splitWhitespace(s) ==
  LET i == indexOfAny(s, WhitespaceChars, 1) IN
  IF i = 0 THEN <<s>>
  ELSE LET j == indexOfNone(s, WhitespaceChars, i) IN
       <<SubSeq(s, 1, i - 1)>> \o splitWhitespace(SubSeq(s, j, Len(s)))

\* String.prototype.split(sep) for a one-character separator
RECURSIVE splitChar(_, _)
splitChar(s, sep) ==
  LET i == indexOfAny(s, {sep}, 1) IN
  IF i = 0 THEN <<s>>
  ELSE <<SubSeq(s, 1, i - 1)>> \o splitChar(SubSeq(s, i + 1, Len(s)), sep)

RECURSIVE filterNonEmpty(_)
filterNonEmpty(ws) ==
  IF ws = <<>> THEN <<>>
  ELSE IF Len(Head(ws)) > 0 THEN <<Head(ws)>> \o filterNonEmpty(Tail(ws))
  ELSE filterNonEmpty(Tail(ws))

\* ------------------------------------------------------------- timestamps
Digits == {"0", "1", "2", "3", "4", "5", "6", "7", "8", "9"}

digitValue(c) ==
  CASE c = "0" -> 0 [] c = "1" -> 1 [] c = "2" -> 2 [] c = "3" -> 3
    [] c = "4" -> 4 [] c = "5" -> 5 [] c = "6" -> 6 [] c = "7" -> 7
    [] c = "8" -> 8 [] c = "9" -> 9

digitChar(n) ==
  CASE n = 0 -> "0" [] n = 1 -> "1" [] n = 2 -> "2" [] n = 3 -> "3"
    [] n = 4 -> "4" [] n = 5 -> "5" [] n = 6 -> "6" [] n = 7 -> "7"
    [] n = 8 -> "8" [] n = 9 -> "9"

RECURSIVE digitsValue(_, _)
digitsValue(s, acc) ==
  IF s = <<>> \/ Head(s) \notin Digits THEN acc
  ELSE digitsValue(Tail(s), acc * 10 + digitValue(Head(s)))

\* parseInt(s, 10) for unsigned input: leading whitespace skipped, the longest
\* digit prefix is read, NaN if there is none.
parseInt(s) ==
  LET t == trimStart(s) IN
  IF t = <<>> \/ Head(t) \notin Digits THEN NaN ELSE digitsValue(t, 0)

\* Mutant: a minute counts as a second.
srtTimeToSecondsShortMinutes(timeString) ==
  LET parts == splitChar(timeString, ":") IN
  IF Len(parts) < 3 THEN TypeError
  ELSE LET secondsAndMillis == splitChar(parts[3], ",")
           hours == parseInt(parts[1])
           minutes == parseInt(parts[2])
           seconds == parseInt(secondsAndMillis[1])
           milliseconds == IF Len(secondsAndMillis) >= 2
                           THEN parseInt(secondsAndMillis[2])
                           ELSE NaN
       IN IF NaN \in {hours, minutes, seconds, milliseconds} THEN NaN
          ELSE (hours * 3600000) + (minutes * 1000) + (seconds * 1000)
               + milliseconds

\* srtTimeToSeconds, result in milliseconds (the code returns
\* hours*3600 + minutes*60 + seconds + milliseconds/1000 seconds).
srtTimeToSeconds(timeString) ==
  LET parts == splitChar(timeString, ":") IN
  IF Len(parts) < 3 THEN TypeError
  ELSE LET secondsAndMillis == splitChar(parts[3], ",")
           hours == parseInt(parts[1])
           minutes == parseInt(parts[2])
           seconds == parseInt(secondsAndMillis[1])
           milliseconds == IF Len(secondsAndMillis) >= 2
                           THEN parseInt(secondsAndMillis[2])
                           ELSE NaN  \* parseInt(undefined, 10)
       IN IF NaN \in {hours, minutes, seconds, milliseconds} THEN NaN
          ELSE (hours * 3600000) + (minutes * 60000) + (seconds * 1000)
               + milliseconds

twoDigits(n) == <<digitChar((n \div 10) % 10), digitChar(n % 10)>>

threeDigits(n) ==
  <<digitChar((n \div 100) % 10), digitChar((n \div 10) % 10), digitChar(n % 10)>>

\* The HH:MM:SS,mmm timestamp of an SRT cue, as srt-parser-2 hands it over.
srtTimestamp(ms) ==
  twoDigits(ms \div 3600000) \o <<":">> \o twoDigits((ms \div 60000) % 60)
  \o <<":">> \o twoDigits((ms \div 1000) % 60) \o <<",">>
  \o threeDigits(ms % 1000)

\* Mutant: the end delay is left out of the frame.
endFrameOfWithoutDelay(endTimeMs, delayMs, fps) ==
  IF endTimeMs < 0 THEN endTimeMs ELSE (endTimeMs * fps) \div 1000

\* Math.floor((endTimeSeconds + hookEndDelaySeconds) * fps)
endFrameOf(endTimeMs, delayMs, fps) ==
  IF endTimeMs < 0 THEN endTimeMs ELSE ((endTimeMs + delayMs) * fps) \div 1000

\* ----------------------------------------------------------- hook aligner
normalizedHookWordsOf(hookText) ==
  LET raw == splitWhitespace(trim(hookText)) IN
  filterNonEmpty([k \in 1..Len(raw) |-> normalizeWord(raw[k])])

\* The inner j loop of attempt 1: the window starting at entry i matches.
segmentMatches(words, srtLines, i) ==
  \A j \in 1..Len(words) : normalizeWord(srtLines[i + j - 1].text) = words[j]

\* Mutant: the scan keeps the last window that matches instead of the first.
fullMatchScanKeepsLast(words, srtLines, i) ==
  LET hits == {p \in i..(Len(srtLines) - Len(words) + 1) :
                 segmentMatches(words, srtLines, p)}
  IN IF hits = {} THEN 0 ELSE CHOOSE p \in hits : \A q \in hits : q <= p

\* Attempt 1, for (i = 0; i <= srtLines.length - words.length; i++):
\* the first window position that matches, 0 if none (positions from 1).
RECURSIVE fullMatchScan(_, _, _)
fullMatchScan(words, srtLines, i) ==
  IF i > Len(srtLines) - Len(words) + 1 THEN 0
  ELSE IF segmentMatches(words, srtLines, i) THEN i
  ELSE fullMatchScan(words, srtLines, i + 1)

\* Mutant: the entry text is compared without being normalized.
RECURSIVE lastWordScanRawText(_, _, _)
lastWordScanRawText(lastWord, srtLines, i) ==
  IF i < 1 THEN 0
  ELSE IF srtLines[i].text = lastWord THEN i
  ELSE lastWordScanRawText(lastWord, srtLines, i - 1)

\* Attempt 2, for (i = srtLines.length - 1; i >= 0; i--): the first entry
\* met whose normalized text is the last hook word, 0 if none.
RECURSIVE lastWordScan(_, _, _)
lastWordScan(lastWord, srtLines, i) ==
  IF i < 1 THEN 0
  ELSE IF normalizeWord(srtLines[i].text) = lastWord THEN i
  ELSE lastWordScan(lastWord, srtLines, i - 1)

calculateHookEndFrame(hookText, srtLines, fps, hookEndDelayMs) ==
  IF hookText = <<>> \/ Len(srtLines) = 0 THEN 0
  ELSE LET words == normalizedHookWordsOf(hookText) IN
       IF Len(words) = 0 THEN 0
       ELSE LET i == fullMatchScan(words, srtLines, 1) IN
            IF i > 0
            THEN endFrameOf(srtTimeToSeconds(srtLines[i + Len(words) - 1].endTime),
                            hookEndDelayMs, fps)
            ELSE LET k == lastWordScan(words[Len(words)], srtLines, Len(srtLines)) IN
                 IF k > 0
                 THEN endFrameOf(srtTimeToSeconds(srtLines[k].endTime),
                                 hookEndDelayMs, fps)
                 ELSE 0


\* Mutant: frames are rounded up.
frameOfCeil(timeMs, fps) ==
  IF timeMs < 0 THEN timeMs ELSE ((timeMs * fps) + 999) \div 1000

\* srtLinesToWordTimings: one WordTiming per line, frames floored.
frameOf(timeMs, fps) == IF timeMs < 0 THEN timeMs ELSE (timeMs * fps) \div 1000

srtLinesToWordTimings(srtLines, fps) ==
  [k \in 1..Len(srtLines) |->
     [text |-> srtLines[k].text,
      startFrame |-> frameOf(srtTimeToSeconds(srtLines[k].startTime), fps),
      endFrame |-> frameOf(srtTimeToSeconds(srtLines[k].endTime), fps)]]


\* ------------- calculateHookEndFrame of pages/api/create-video.ts (older)
\* String.prototype.replace(/[.,!?;:]+$/, ''): removes the whole run of
\* punctuation at the end of the string.
RECURSIVE replaceTrailingPunctRun(_)
replaceTrailingPunctRun(s) ==
  IF s # <<>> /\ s[Len(s)] \in TrailingPunct
  THEN replaceTrailingPunctRun(SubSeq(s, 1, Len(s) - 1))
  ELSE s

\* String.prototype.replace(/[.,!?;:]/g, ''): removes every punctuation
\* character.
RECURSIVE replaceAllPunct(_)
replaceAllPunct(s) ==
  IF s = <<>> THEN <<>>
  ELSE IF Head(s) \in TrailingPunct THEN replaceAllPunct(Tail(s))
  ELSE <<Head(s)>> \o replaceAllPunct(Tail(s))

\* String.prototype.includes
includes(s, sub) ==
  \E i \in 0..(Len(s) - Len(sub)) : SubSeq(s, i + 1, i + Len(sub)) = sub

\* Index of the first backslash of s at or after from that an 's' follows,
\* 0 if none.
RECURSIVE indexOfBackslashS(_, _)
indexOfBackslashS(s, from) ==
  IF from + 1 > Len(s) THEN 0
  ELSE IF s[from] = "\\" /\ s[from + 1] = "s" THEN from
  ELSE indexOfBackslashS(s, from + 1)

\* String.prototype.split(/\\s+/): the pattern of the source is a backslash
\* followed by one or more letters s, not white space.
RECURSIVE splitBackslashS(_)
splitBackslashS(s) ==
  LET i == indexOfBackslashS(s, 1) IN
  IF i = 0 THEN <<s>>
  ELSE LET j == indexOfNone(s, {"s"}, i + 1) IN
       <<SubSeq(s, 1, i - 1)>> \o splitBackslashS(SubSeq(s, j, Len(s)))

cleanedSrtLineText(line) == replaceAllPunct(trim(toLowerCase(line.text)))

\* new RegExp(`\\\\b${lastWordOfHook}\\\\b`).test(text): the pattern is a
\* backslash, the letter b, the word, a backslash and the letter b (the word
\* holds no character that is special in a pattern).
wordRegexTest(lastWordOfHook, text) ==
  includes(text, <<"\\", "b">> \o lastWordOfHook \o <<"\\", "b">>)

\* The first loop: Math.floor(srtTimeToSeconds(line.endTime) * fps) of the
\* first line that includes the phrase, 0 if none.
RECURSIVE fullPhraseScan(_, _, _, _)
fullPhraseScan(cleanedHookText, srtLines, i, fps) ==
  IF i > Len(srtLines) THEN 0
  ELSE IF includes(cleanedSrtLineText(srtLines[i]), cleanedHookText)
       THEN frameOf(srtTimeToSeconds(srtLines[i].endTime), fps)
       ELSE fullPhraseScan(cleanedHookText, srtLines, i + 1, fps)

\* The second loop, for the last word.
RECURSIVE lastWordRegexScan(_, _, _, _)
lastWordRegexScan(lastWordOfHook, srtLines, i, fps) ==
  IF i > Len(srtLines) THEN 0
  ELSE IF wordRegexTest(lastWordOfHook, cleanedSrtLineText(srtLines[i]))
       THEN frameOf(srtTimeToSeconds(srtLines[i].endTime), fps)
       ELSE lastWordRegexScan(lastWordOfHook, srtLines, i + 1, fps)

\* hookEndDelaySeconds = 0.25 is hookEndDelayMs = 250
calculateHookEndFrameOld(hookText, srtLines, fps, hookEndDelayMs) ==
  IF hookText = <<>> \/ trim(hookText) = <<>> \/ Len(srtLines) = 0 THEN 0
  ELSE LET cleanedHookText == replaceTrailingPunctRun(trim(toLowerCase(hookText)))
           hookWords == splitBackslashS(cleanedHookText)
           lastWordOfHook == hookWords[Len(hookWords)]
           phraseFrame == fullPhraseScan(cleanedHookText, srtLines, 1, fps)
           matchedEndFrame ==
             IF phraseFrame = 0 /\ lastWordOfHook # <<>>
             THEN lastWordRegexScan(lastWordOfHook, srtLines, 1, fps)
             ELSE phraseFrame
       IN IF matchedEndFrame = TypeError THEN TypeError
          ELSE IF matchedEndFrame > 0
               THEN matchedEndFrame + (hookEndDelayMs * fps) \div 1000
               ELSE 0

\* Math.ceil(finalVideoDurationSeconds * FPS)
totalDurationInFramesOf(durationMs, fps) == ((durationMs * fps) + 999) \div 1000

\* ------------------------------------------------- locators and the schemas
Undefined == "undefined"

S3Audio == "s3://bucket/voice.mp3"
HttpsAudio == "https://host/voice.mp3"
FtpAudio == "ftp://host/voice.mp3"
S3Srt == "s3://bucket/subs.srt"
HttpsSrt == "https://host/subs.srt"
FtpSrt == "ftp://host/subs.srt"
LogoUrl == "https://host/logo.png"
CustomBackgroundUrl == "https://host/bg.mp4"
ClipA == "s3://bucket/Clips/Satisfying/a.mp4"
ClipB == "s3://bucket/Clips/Satisfying/b.mp4"
RenderOutput == "https://renders/out.mp4"

\* new URL(s).protocol, "" when new URL(s) throws
protocolOf(s) ==
  CASE s \in {S3Audio, S3Srt, ClipA, ClipB} -> "s3:"
    [] s \in {HttpsAudio, HttpsSrt, LogoUrl, CustomBackgroundUrl, RenderOutput} -> "https:"
    [] s \in {FtpAudio, FtpSrt} -> "ftp:"
    [] OTHER -> ""

\* z.string().url(): a string that new URL() accepts
isUrl(v) == v # Undefined /\ protocolOf(v) # ""

\* z.string().url().optional()
isOptionalUrl(v) == v = Undefined \/ isUrl(v)

\* z.string().url().optional().or(z.literal(''))
isOptionalUrlOrEmpty(v) == isOptionalUrl(v) \/ v = ""

\* JavaScript truthiness of an optional string
truthy(v) == v # Undefined /\ v # ""

\* Mutant: channelName is not required.
uiFormSchemaAcceptsWithoutName(body) ==
  /\ isUrl(body.channelImage)
  /\ Len(body.hookText) >= 1
  /\ isOptionalUrlOrEmpty(body.audioUrl)
  /\ isOptionalUrlOrEmpty(body.srtFileUrl)
  /\ isOptionalUrlOrEmpty(body.backgroundVideoUrl)

\* uiFormSchema.parse succeeds (fields with defaults that the model does not
\* vary are left out)
uiFormSchemaAccepts(body) ==
  /\ body.channelName # Undefined /\ body.channelName # ""
  /\ isUrl(body.channelImage)
  /\ Len(body.hookText) >= 1
  /\ isOptionalUrlOrEmpty(body.audioUrl)
  /\ isOptionalUrlOrEmpty(body.srtFileUrl)
  /\ body.backgroundVideoStyle \in {"satisfying", "makeup", "parkour", "gaming", "nature", "custom"}
  /\ isOptionalUrlOrEmpty(body.backgroundVideoUrl)
  /\ isOptionalUrlOrEmpty(body.customFontUrl)
  /\ isOptionalUrlOrEmpty(body.backgroundImageUrl)
  /\ isOptionalUrlOrEmpty(body.backgroundMusicUrl)
  /\ isOptionalUrlOrEmpty(body.watermarkImageUrl)

\* remotionPropsSchema.parse succeeds.  hookDurationInSeconds is held in
\* frames (seconds * FPS); a negative value stands for NaN.
remotionPropsSchemaAccepts(props) ==
  /\ props.channelName # Undefined /\ props.channelName # ""
  /\ isUrl(props.channelImage)
  /\ Len(props.hookText) >= 1
  /\ isOptionalUrl(props.audioUrl)
  /\ isOptionalUrl(props.srtFileUrl)
  /\ props.hookDurationInSeconds >= 0
  /\ props.backgroundVideoStyle \in {"satisfying", "makeup", "parkour", "gaming", "nature", "custom"}
  /\ isOptionalUrl(props.backgroundVideoUrl)
  /\ isOptionalUrl(props.backgroundVideoPath)
  /\ isOptionalUrl(props.customFontUrl)
  /\ isOptionalUrl(props.backgroundImageUrl)
  /\ isOptionalUrl(props.backgroundMusicUrl)
  /\ isOptionalUrl(props.watermarkImageUrl)
  /\ props.totalDurationInFrames > 0

\* remotionPropsInput of the handler: the UI data spread, then the derived fields
remotionPropsInputOf(ui, hookFrames, timings, bgPath, durationMs) ==
  [channelName |-> ui.channelName,
   channelImage |-> ui.channelImage,
   hookText |-> ui.hookText,
   audioUrl |-> IF truthy(ui.audioUrl) THEN ui.audioUrl ELSE Undefined,
   srtFileUrl |-> IF truthy(ui.srtFileUrl) THEN ui.srtFileUrl ELSE Undefined,
   hookDurationInSeconds |-> hookFrames,
   wordTimings |-> timings,
   backgroundVideoStyle |-> ui.backgroundVideoStyle,
   backgroundVideoUrl |-> ui.backgroundVideoUrl,
   backgroundVideoPath |-> bgPath,
   customFontUrl |-> ui.customFontUrl,
   backgroundImageUrl |-> ui.backgroundImageUrl,
   backgroundMusicUrl |-> ui.backgroundMusicUrl,
   watermarkImageUrl |-> ui.watermarkImageUrl,
   totalDurationInFrames |-> totalDurationInFramesOf(durationMs, FPS)]

\* ------------------------------------------------------ background catalog
ClipFolderKey == "Clips/Satisfying/"
ClipKeys == {ClipFolderKey, "Clips/Satisfying/a.mp4", "Clips/Satisfying/b.mp4"}

keyEndsWithSlash(key) == key = ClipFolderKey

s3UrlOfKey(key) == IF key = "Clips/Satisfying/a.mp4" THEN ClipA ELSE ClipB

\* getRandomBackgroundVideoS3: the values it can return for a listing
\* (contents = the keys listed, or "error" when the listing call throws)
getRandomBackgroundVideoS3(contents) ==
  IF contents = {"error"} THEN {Undefined}
  ELSE LET videoFiles == {k \in contents : ~keyEndsWithSlash(k)} IN
       IF videoFiles = {} THEN {Undefined}
       ELSE {s3UrlOfKey(k) : k \in videoFiles}

\* BackgroundVideo: the durationInFrames of the Series.Sequence elements it
\* renders for an array of {path, durationInFrames}; durationInFrames 0 is an
\* item without one (a plain string path), which || treats alike.
DefaultSequenceFrames == 300

\* Mutant: the fallback skips totalDurationInFrames.
sequenceDurationOfFixedFallback(video, totalDurationInFrames) ==
  IF video.durationInFrames # 0 THEN video.durationInFrames
  ELSE DefaultSequenceFrames

sequenceDurationOf(video, totalDurationInFrames) ==
  IF video.durationInFrames # 0 THEN video.durationInFrames
  ELSE IF totalDurationInFrames # 0 THEN totalDurationInFrames
  ELSE DefaultSequenceFrames

RECURSIVE BackgroundVideo(_, _)
BackgroundVideo(videos, totalDurationInFrames) ==
  IF videos = <<>> THEN <<>>
  ELSE (IF Head(videos).path = "" THEN <<>>
        ELSE <<sequenceDurationOf(Head(videos), totalDurationInFrames)>>)
       \o BackgroundVideo(Tail(videos), totalDurationInFrames)

RECURSIVE SumSeq(_)
SumSeq(q) == IF q = <<>> THEN 0 ELSE Head(q) + SumSeq(Tail(q))

\* ------------------------------------------------------------ render poll
maxPollingDurationMs == 80000
pollingIntervalMs == 10000

RenderErrors == {<<>>, <<[message |-> "lambda error"]>>}

RenderStatuses ==
  [overallProgress : {50, 100},       \* percent
   fatalErrorEncountered : BOOLEAN,
   errors : RenderErrors,
   outputFile : {Undefined, RenderOutput}]

NoProgress ==
  [overallProgress |-> 0, fatalErrorEncountered |-> FALSE, errors |-> <<>>,
   outputFile |-> Undefined]

\* Mutant: the message of the render service is dropped.
renderFailedMessageUnknown(errors) == "Render failed: Unknown error"

\* `Render failed: ${progress.errors?.[0]?.message || 'Unknown error'}`
renderFailedMessage(errors) ==
  IF errors # <<>> /\ errors[1].message = "lambda error"
  THEN "Render failed: lambda error"
  ELSE "Render failed: Unknown error"

\* ----------------------------------------------------------- scratch files
\* A path of os.tmpdir(): the uuid prefix (0 when the name has none) and the
\* file name.  uuidv4() answers a value no other call gets.
NoPath == [uuid |-> 0, name |-> ""]

\* path.basename of the locator's path
basenameOf(url) ==
  CASE url \in {S3Audio, HttpsAudio, FtpAudio} -> "voice.mp3"
    [] url \in {S3Srt, HttpsSrt, FtpSrt} -> "subs.srt"
    [] OTHER -> ""

\* tempFilePath of getAudioDurationFromS3
audioTempFilePath(url, uniqueId) ==
  IF protocolOf(url) = "s3:" THEN [uuid |-> 0, name |-> basenameOf(url)]
  ELSE IF protocolOf(url) \in {"http:", "https:"}
       THEN [uuid |-> uniqueId, name |-> basenameOf(url)]
  ELSE NoPath

\* tempFilePath of parseSrt: `${uuidv4()}_${basename || 'subtitle.srt'}.srt`
srtTempFilePath(url, uniqueId) ==
  [uuid |-> uniqueId,
   name |-> IF basenameOf(url) = "subs.srt" THEN "subs.srt.srt"
            ELSE "subtitle.srt.srt"]

EmptyTmpdir == [files |-> {}, unlinks |-> {}]

\* the file is on disk and fs.unlink(path, callback) has been called for it
writtenThenUnlinkCalled(dir, path) ==
  [files |-> dir.files \cup {path}, unlinks |-> dir.unlinks \cup {path}]

\* fs.unlink has removed the file (or found none)
unlinked(dir, path) ==
  [files |-> dir.files \ {path}, unlinks |-> dir.unlinks \ {path}]

AudioUuid == 1
SrtUuid == 2

\* ------------------------------------------------------------------ state
VARIABLES
  normArg,    \* the word given to normalizeWord
  normOnce,   \* normalizeWord(normArg)
  normTwice,  \* normalizeWord(normOnce)
  normPc,     \* "arg", "once", "twice"
  hookArg,    \* [hookText, srtLines] given to calculateHookEndFrame
  hookRet,    \* its return value
  hookPc,     \* "arg", "done"
  timeArg,    \* the string given to srtTimeToSeconds
  timeRet,    \* its result: milliseconds, NaN or TypeError
  timePc,     \* "arg", "done"
  timingArg,  \* the SrtLine[] given to srtLinesToWordTimings
  timingRet,  \* the WordTiming[] it returns
  timingPc,   \* "arg", "done"
  calls,      \* concurrent fetch calls: [kind, locator, pc, path, puts,
              \* unlinkPending, error]
  scratch,    \* the files of os.tmpdir() that those calls share
  pc,                         \* the handler's position
  req,                        \* [method, body]
  uiData,                     \* the parsed body
  audioDuration,              \* ms
  srtLines,
  calculatedHookEndFrame,
  srtDurationSeconds,         \* ms
  finalVideoDurationSeconds,  \* ms
  finalBackgroundVideoPath,
  props,                      \* remotionPropsInput / validatedRemotionProps
  progress,                   \* the last render status
  pollingTimeElapsedMs,
  response,                   \* [status, error, details, message, videoUrl]
  effects,                    \* what the request did to its collaborators
  tmpdir                      \* scratch files on disk, and pending fs.unlink calls

timeVars == <<timeArg, timeRet, timePc>>
timingVars == <<timingArg, timingRet, timingPc>>
fetchVars == <<calls, scratch>>
fnVars ==
  <<normArg, normOnce, normTwice, normPc, hookArg, hookRet, hookPc,
    timeVars, timingVars, fetchVars>>
handlerVars ==
  <<pc, req, uiData, audioDuration, srtLines, calculatedHookEndFrame,
    srtDurationSeconds, finalVideoDurationSeconds, finalBackgroundVideoPath,
    props, progress, pollingTimeElapsedMs, response, effects, tmpdir>>
vars == <<fnVars, handlerVars>>

\* ----------------------------------------------------------- input spaces
StringsUpTo(alphabet, n) == UNION {[1..k -> alphabet] : k \in 0..n}

WordAlphabet == {"a", "A", "!", " "}
HookAlphabet == {"a", "b", "!", " "}
SrtTexts == {<<"a">>, <<"B", "!">>}
SrtEndTimesMs == {0, 1000}

SrtLine(text, startMs, endMs) ==
  [text |-> text, startTime |-> srtTimestamp(startMs), endTime |-> srtTimestamp(endMs)]

SrtLines == {SrtLine(t, 0, e) : t \in SrtTexts, e \in SrtEndTimesMs}

\* Requests: the fields of the body that the handler looks at.
OptionalUrlFields ==
  {"customFontUrl", "backgroundImageUrl", "backgroundMusicUrl", "watermarkImageUrl"}

BodyWith(name, hook, audio, srt, style, bgUrl, emptyField) ==
  [channelName |-> name,
   channelImage |-> LogoUrl,
   hookText |-> hook,
   audioUrl |-> audio,
   srtFileUrl |-> srt,
   backgroundVideoStyle |-> style,
   backgroundVideoUrl |-> bgUrl,
   customFontUrl |-> IF emptyField = "customFontUrl" THEN "" ELSE Undefined,
   backgroundImageUrl |-> IF emptyField = "backgroundImageUrl" THEN "" ELSE Undefined,
   backgroundMusicUrl |-> IF emptyField = "backgroundMusicUrl" THEN "" ELSE Undefined,
   watermarkImageUrl |-> IF emptyField = "watermarkImageUrl" THEN "" ELSE Undefined]

Bodies ==
  {BodyWith(name, hook, audio, srt, style, bgUrl, emptyField) :
     name \in {Undefined, "chan"},
     hook \in {<<>>, <<"a", " ", "b">>},
     audio \in {Undefined, "", S3Audio, HttpsAudio, FtpAudio},
     srt \in {Undefined, S3Srt, HttpsSrt, FtpSrt},
     style \in {"satisfying", "custom"},
     bgUrl \in {Undefined, "", CustomBackgroundUrl},
     emptyField \in OptionalUrlFields \cup {"none"}}

Requests == [method : {"GET", "POST"}, body : Bodies]

NoBody == BodyWith(Undefined, <<>>, Undefined, Undefined, "satisfying", Undefined, "none")

\* What the collaborators can answer.
AudioDurationsMs == {0, 500, 2000}

SrtResults ==
  {<<>>,
   <<SrtLine(<<"a">>, 0, 400), SrtLine(<<"b">>, 400, 1000)>>,
   <<SrtLine(<<"b">>, 0, 400), SrtLine(<<"B", "!">>, 400, 1000)>>,
   <<SrtLine(<<"a", " ", "b">>, 0, 1000)>>}

Listings == {{"error"}} \cup SUBSET ClipKeys

NoResponse ==
  [status |-> 0, error |-> Undefined, details |-> Undefined,
   message |-> Undefined, videoUrl |-> Undefined]

NoEffects ==
  [downloads |-> 0, puts |-> 0, listings |-> 0, submissions |-> 0,
   statusQueries |-> 0, bodyValidations |-> 0,
   listed |-> {}]   \* what the storage listing answered

NoProps == remotionPropsInputOf(NoBody, 0, <<>>, Undefined, 0)

MaxCalls == 2
Calls == 1..MaxCalls

IdleCall ==
  [kind |-> "audio", locator |-> Undefined, pc |-> "idle", path |-> NoPath,
   puts |-> 0, unlinkPending |-> FALSE, error |-> Undefined]

TimeIdle == timeArg = <<>> /\ timeRet = 0 /\ timePc = "idle"

TimingIdle == timingArg = <<>> /\ timingRet = <<>> /\ timingPc = "idle"

FetchIdle == calls = [c \in Calls |-> IdleCall] /\ scratch = {}

FnIdle ==
  /\ normArg = <<>> /\ normOnce = <<>> /\ normTwice = <<>> /\ normPc = "idle"
  /\ hookArg = [hookText |-> <<>>, srtLines |-> <<>>]
  /\ hookRet = 0 /\ hookPc = "idle"
  /\ TimeIdle
  /\ TimingIdle
  /\ FetchIdle

HandlerLocalsInit ==
  /\ uiData = NoBody
  /\ audioDuration = 0
  /\ srtLines = <<>>
  /\ calculatedHookEndFrame = 0
  /\ srtDurationSeconds = 0
  /\ finalVideoDurationSeconds = 0
  /\ finalBackgroundVideoPath = Undefined
  /\ props = NoProps
  /\ progress = NoProgress
  /\ pollingTimeElapsedMs = 0
  /\ response = NoResponse
  /\ effects = NoEffects
  /\ tmpdir = EmptyTmpdir

HandlerIdle ==
  /\ pc = "idle"
  /\ req = [method |-> "GET", body |-> NoBody]
  /\ HandlerLocalsInit

\* ------------------------------------------- normalizeWord, applied twice
NormInit ==
  /\ normArg \in StringsUpTo(WordAlphabet, MaxWordLen)
  /\ normOnce = <<>> /\ normTwice = <<>> /\ normPc = "arg"
  /\ hookArg = [hookText |-> <<>>, srtLines |-> <<>>]
  /\ hookRet = 0 /\ hookPc = "idle"
  /\ TimeIdle
  /\ FetchIdle
  /\ TimingIdle
  /\ HandlerIdle

NormalizeOnce ==
  /\ normPc = "arg"
  /\ normOnce' = normalizeWord(normArg)
  /\ normPc' = "once"
  /\ UNCHANGED <<normArg, normTwice, hookArg, hookRet, hookPc, timeVars,
                 fetchVars, timingVars, handlerVars>>

NormalizeAgain ==
  /\ normPc = "once"
  /\ normTwice' = normalizeWord(normOnce)
  /\ normPc' = "twice"
  /\ UNCHANGED <<normArg, normOnce, hookArg, hookRet, hookPc, timeVars,
                 fetchVars, timingVars, handlerVars>>

NormNext == NormalizeOnce \/ NormalizeAgain

SpecNorm == NormInit /\ [][NormNext]_vars

\* ------------------------------------------ calculateHookEndFrame, called
HookInit ==
  /\ hookArg \in [hookText : StringsUpTo(HookAlphabet, MaxHookLen),
                  srtLines : StringsUpTo(SrtLines, MaxEntries)]
  /\ hookRet = 0 /\ hookPc = "arg"
  /\ normArg = <<>> /\ normOnce = <<>> /\ normTwice = <<>> /\ normPc = "idle"
  /\ TimeIdle
  /\ FetchIdle
  /\ TimingIdle
  /\ HandlerIdle

CallHook ==
  /\ hookPc = "arg"
  /\ hookRet' = calculateHookEndFrame(hookArg.hookText, hookArg.srtLines,
                                      FPS, HookEndDelayMs)
  /\ hookPc' = "done"
  /\ UNCHANGED <<hookArg, normArg, normOnce, normTwice, normPc, timeVars,
                 fetchVars, timingVars, handlerVars>>

HookNext == CallHook

SpecHook == HookInit /\ [][HookNext]_vars

\* ------------------------------------- concurrent calls of the fetchers
\* getAudioDurationFromS3 and parseSrt, called by requests that run at the
\* same time on one machine.  The uuid of a call is its index.
FetchLocators == {S3Audio, HttpsAudio, FtpAudio, S3Srt, HttpsSrt, FtpSrt}

kindOf(url) == IF url \in {S3Audio, HttpsAudio, FtpAudio} THEN "audio" ELSE "srt"

schemeSupported(url) == protocolOf(url) \in {"s3:", "http:", "https:"}

tempFilePathOf(kind, url, uniqueId) ==
  IF kind = "audio" THEN audioTempFilePath(url, uniqueId)
  ELSE srtTempFilePath(url, uniqueId)

\* Mutant: nothing is put into the bucket.
reuploadsNever(kind, url) == FALSE

\* only getAudioDurationFromS3 has a PutObjectCommand, in its http(s) branch
reuploads(kind, url) ==
  kind = "audio" /\ protocolOf(url) \in {"http:", "https:"}

FetchDone == {"returned", "raised"}

FetchInit ==
  /\ calls \in {[c \in Calls |->
                   [kind |-> kindOf(locs[c]), locator |-> locs[c],
                    pc |-> "called", path |-> NoPath, puts |-> 0,
                    unlinkPending |-> FALSE, error |-> Undefined]] : locs \in [Calls -> FetchLocators]}
  /\ scratch = {}
  /\ normArg = <<>> /\ normOnce = <<>> /\ normTwice = <<>> /\ normPc = "idle"
  /\ hookArg = [hookText |-> <<>>, srtLines |-> <<>>]
  /\ hookRet = 0 /\ hookPc = "idle"
  /\ TimeIdle
  /\ TimingIdle
  /\ HandlerIdle

FetchLocals ==
  UNCHANGED <<normArg, normOnce, normTwice, normPc, hookArg, hookRet, hookPc,
              timeVars, timingVars, handlerVars>>

\* the scheme test; parseSrt has named its file before, the audio fetcher
\* names it in the branch taken
FetchSchemeChecked(c) ==
  /\ calls[c].pc = "called"
  /\ schemeSupported(calls[c].locator)
  /\ calls' = [calls EXCEPT
                 ![c].pc = "downloading",
                 ![c].path = IF calls[c].kind = "srt"
                             THEN srtTempFilePath(calls[c].locator, c)
                             ELSE NoPath]
  /\ UNCHANGED scratch
  /\ FetchLocals

\* throw new Error('Invalid audio URL format...') / `Unsupported SRT URL`;
\* the finally block unlinks '' (audio) or the named, absent file (srt)
FetchSchemeRejected(c) ==
  /\ calls[c].pc = "called"
  /\ ~schemeSupported(calls[c].locator)
  /\ calls' = [calls EXCEPT
                 ![c].pc = "raised",
                 ![c].path = IF calls[c].kind = "srt"
                             THEN srtTempFilePath(calls[c].locator, c)
                             ELSE NoPath,
                 ![c].unlinkPending = (calls[c].kind = "srt"),
                 ![c].error = "unsupported scheme"]
  /\ UNCHANGED scratch
  /\ FetchLocals

\* GetObjectCommand / fetch, then streamToFile(body, tempFilePath)
FetchDownloaded(c) ==
  /\ calls[c].pc = "downloading"
  /\ LET path == tempFilePathOf(calls[c].kind, calls[c].locator, c) IN
       /\ calls' = [calls EXCEPT
                      ![c].path = path,
                      ![c].pc = IF reuploads(calls[c].kind, calls[c].locator)
                                THEN "uploading" ELSE "reading"]
       /\ scratch' = scratch \cup {path}
  /\ FetchLocals

\* the request fails (no file is written) or the stream fails (the file is
\* there); then the finally block calls fs.unlink
FetchDownloadFailed(c) ==
  /\ calls[c].pc = "downloading"
  /\ \E created \in BOOLEAN :
       LET named == created \/ protocolOf(calls[c].locator) # "s3:"
                            \/ calls[c].kind = "srt"
           path == IF named
                   THEN tempFilePathOf(calls[c].kind, calls[c].locator, c)
                   ELSE NoPath
       IN /\ calls' = [calls EXCEPT ![c].path = path, ![c].pc = "raised",
                                    ![c].unlinkPending = named,
                                    ![c].error = "download failed"]
          /\ scratch' = IF created THEN scratch \cup {path} ELSE scratch
  /\ FetchLocals

\* s3Client.send(new PutObjectCommand({Key: `UploadedAudio/...`}))
FetchUploaded(c) ==
  /\ calls[c].pc = "uploading"
  /\ calls' = [calls EXCEPT ![c].puts = 1, ![c].pc = "reading"]
  /\ UNCHANGED scratch
  /\ FetchLocals

FetchUploadFailed(c) ==
  /\ calls[c].pc = "uploading"
  /\ calls' = [calls EXCEPT ![c].pc = "raised", ![c].unlinkPending = TRUE,
                            ![c].error = "put failed"]
  /\ UNCHANGED scratch
  /\ FetchLocals

\* fs.readFileSync(tempFilePath) and the parse, then the finally block;
\* the read throws when the file is gone, the parse may throw
FetchParsed(c) ==
  /\ calls[c].pc = "reading"
  /\ \E parsed \in BOOLEAN :
       calls' = [calls EXCEPT
                  ![c].pc = IF parsed /\ calls[c].path \in scratch
                            THEN "returned" ELSE "raised",
                  ![c].error = IF calls[c].path \notin scratch
                               THEN "ENOENT"
                               ELSE IF parsed THEN Undefined
                               ELSE "parse failed",
                  ![c].unlinkPending = TRUE]
  /\ UNCHANGED scratch
  /\ FetchLocals

\* the thread pool carries out fs.unlink(tempFilePath, callback)
FetchUnlinkCompleted(c) ==
  /\ calls[c].unlinkPending
  /\ calls' = [calls EXCEPT ![c].unlinkPending = FALSE]
  /\ scratch' = scratch \ {calls[c].path}
  /\ FetchLocals

FetchNext ==
  \E c \in Calls :
    \/ FetchSchemeChecked(c)
    \/ FetchSchemeRejected(c)
    \/ FetchDownloaded(c)
    \/ FetchDownloadFailed(c)
    \/ FetchUploaded(c)
    \/ FetchUploadFailed(c)
    \/ FetchParsed(c)
    \/ FetchUnlinkCompleted(c)

SpecFetch == FetchInit /\ [][FetchNext]_vars

\* -------------------------------------------- srtTimeToSeconds, called
TimeAlphabet == {"1", "x", ":", ","}

ValidHours == {0, 1, 12}
ValidMinutes == {0, 1, 59}
ValidSeconds == {0, 2, 59}
ValidMillis == {0, 5, 500, 999}

timestampOf(h, m, sec, ms) ==
  twoDigits(h) \o <<":">> \o twoDigits(m) \o <<":">> \o twoDigits(sec)
  \o <<",">> \o threeDigits(ms)

ValidTimestamps ==
  {timestampOf(h, m, sec, ms) :
     h \in ValidHours, m \in ValidMinutes, sec \in ValidSeconds, ms \in ValidMillis}

MaxTimeLen == 7

TimeInit ==
  /\ timeArg \in ValidTimestamps \cup StringsUpTo(TimeAlphabet, MaxTimeLen)
  /\ timeRet = 0 /\ timePc = "arg"
  /\ normArg = <<>> /\ normOnce = <<>> /\ normTwice = <<>> /\ normPc = "idle"
  /\ hookArg = [hookText |-> <<>>, srtLines |-> <<>>]
  /\ hookRet = 0 /\ hookPc = "idle"
  /\ FetchIdle
  /\ TimingIdle
  /\ HandlerIdle

CallSrtTimeToSeconds ==
  /\ timePc = "arg"
  /\ timeRet' = srtTimeToSeconds(timeArg)
  /\ timePc' = "done"
  /\ UNCHANGED <<timeArg, normArg, normOnce, normTwice, normPc, hookArg,
                 hookRet, hookPc, fetchVars, timingVars, handlerVars>>

TimeNext == CallSrtTimeToSeconds

SpecTime == TimeInit /\ [][TimeNext]_vars


\* ------------------------------------------ srtLinesToWordTimings, called
TimingTexts == {<<"a">>, <<"b">>}
TimingTimesMs == {0, 34, 1050}
TimingLines == {SrtLine(t, s, e) : t \in TimingTexts, s \in TimingTimesMs,
                                   e \in TimingTimesMs}

TimingInit ==
  /\ timingArg \in StringsUpTo(TimingLines, MaxEntries)
  /\ timingRet = <<>> /\ timingPc = "arg"
  /\ normArg = <<>> /\ normOnce = <<>> /\ normTwice = <<>> /\ normPc = "idle"
  /\ hookArg = [hookText |-> <<>>, srtLines |-> <<>>]
  /\ hookRet = 0 /\ hookPc = "idle"
  /\ TimeIdle
  /\ FetchIdle
  /\ HandlerIdle

CallSrtLinesToWordTimings ==
  /\ timingPc = "arg"
  /\ timingRet' = srtLinesToWordTimings(timingArg, FPS)
  /\ timingPc' = "done"
  /\ UNCHANGED <<timingArg, normArg, normOnce, normTwice, normPc, hookArg,
                 hookRet, hookPc, timeVars, fetchVars, handlerVars>>

TimingNext == CallSrtLinesToWordTimings

SpecTiming == TimingInit /\ [][TimingNext]_vars


\* ------------- calculateHookEndFrame of pages/api/create-video.ts, called
OldHookAlphabet == {"a", " ", "!"}
OldSrtTexts == {<<"a">>, <<"B", "!">>}
OldSrtEndTimesMs == {20, 50, 1000}
OldSrtLines == {SrtLine(t, 0, e) : t \in OldSrtTexts, e \in OldSrtEndTimesMs}

OldHookInit ==
  /\ hookArg \in [hookText : StringsUpTo(OldHookAlphabet, MaxHookLen),
                  srtLines : StringsUpTo(OldSrtLines, MaxEntries)]
  /\ hookRet = 0 /\ hookPc = "arg"
  /\ normArg = <<>> /\ normOnce = <<>> /\ normTwice = <<>> /\ normPc = "idle"
  /\ TimeIdle
  /\ TimingIdle
  /\ FetchIdle
  /\ HandlerIdle

CallOldHook ==
  /\ hookPc = "arg"
  /\ hookRet' = calculateHookEndFrameOld(hookArg.hookText, hookArg.srtLines,
                                         FPS, HookEndDelayMs)
  /\ hookPc' = "done"
  /\ UNCHANGED <<hookArg, normArg, normOnce, normTwice, normPc, timeVars,
                 fetchVars, timingVars, handlerVars>>

OldHookNext == CallOldHook

SpecOldHook == OldHookInit /\ [][OldHookNext]_vars

\* ------------------------------------------------------- the handler
Init ==
  /\ FnIdle
  /\ pc = "Received"
  /\ req \in Requests
  /\ HandlerLocalsInit

Respond(status, error, details, message, videoUrl) ==
  /\ response' = [status |-> status, error |-> error, details |-> details,
                  message |-> message, videoUrl |-> videoUrl]
  /\ pc' = "Responded"


\* Mutant: the catch block hands out the stack of the error.
Respond500WithStack(errorMessage) ==
  Respond(500, "Video generation failed.", "Error: at handler (create-video.ts)",
          Undefined, Undefined)

\* the catch block of the handler: 500 with the error's message as details
Respond500(errorMessage) ==
  Respond(500, "Video generation failed.", errorMessage, Undefined, Undefined)

Effect(field) == effects' = [effects EXCEPT ![field] = @ + 1]

\* if (req.method !== 'POST') return res.status(405)
MethodNotAllowed ==
  /\ pc = "Received"
  /\ req.method # "POST"
  /\ Respond(405, "Method Not Allowed", Undefined, Undefined, Undefined)
  /\ UNCHANGED <<fnVars, tmpdir, req, uiData, audioDuration, srtLines,
                 calculatedHookEndFrame, srtDurationSeconds,
                 finalVideoDurationSeconds, finalBackgroundVideoPath, props,
                 progress, pollingTimeElapsedMs, effects>>

\* uiFormSchema.parse(req.body) throws a ZodError
InvalidBody ==
  /\ pc = "Received"
  /\ req.method = "POST"
  /\ ~uiFormSchemaAccepts(req.body)
  /\ Effect("bodyValidations")
  /\ Respond(400, "Invalid form data.", "ZodError.flatten", Undefined, Undefined)
  /\ UNCHANGED <<fnVars, tmpdir, req, uiData, audioDuration, srtLines,
                 calculatedHookEndFrame, srtDurationSeconds,
                 finalVideoDurationSeconds, finalBackgroundVideoPath, props,
                 progress, pollingTimeElapsedMs>>

\* Mutant: the body is parsed whatever the method.
BodyAcceptedAnyMethod ==
  /\ pc = "Received"
  /\ uiFormSchemaAccepts(req.body)
  /\ Effect("bodyValidations")
  /\ uiData' = req.body
  /\ pc' = "AudioResolving"
  /\ UNCHANGED <<fnVars, tmpdir, req, audioDuration, srtLines, calculatedHookEndFrame,
                 srtDurationSeconds, finalVideoDurationSeconds,
                 finalBackgroundVideoPath, props, progress,
                 pollingTimeElapsedMs, response>>

BodyAccepted ==
  /\ pc = "Received"
  /\ req.method = "POST"
  /\ uiFormSchemaAccepts(req.body)
  /\ Effect("bodyValidations")
  /\ uiData' = req.body
  /\ pc' = "AudioResolving"
  /\ UNCHANGED <<fnVars, tmpdir, req, audioDuration, srtLines, calculatedHookEndFrame,
                 srtDurationSeconds, finalVideoDurationSeconds,
                 finalBackgroundVideoPath, props, progress,
                 pollingTimeElapsedMs, response>>

\* audioDuration = uiData.audioUrl ? await getAudioDurationFromS3(...) : 0
audioSchemeSupported(url) == protocolOf(url) \in {"s3:", "http:", "https:"}

AudioLocals ==
  UNCHANGED <<fnVars, req, uiData, srtLines, calculatedHookEndFrame,
              srtDurationSeconds, finalVideoDurationSeconds,
              finalBackgroundVideoPath, props, progress, pollingTimeElapsedMs>>

AudioAbsent ==
  /\ pc = "AudioResolving"
  /\ ~truthy(uiData.audioUrl)
  /\ audioDuration' = 0
  /\ pc' = "SubtitleResolving"
  /\ UNCHANGED <<response, effects, tmpdir>>
  /\ AudioLocals

AudioProbed ==
  /\ pc = "AudioResolving"
  /\ truthy(uiData.audioUrl)
  /\ audioSchemeSupported(uiData.audioUrl)
  /\ \E d \in AudioDurationsMs : audioDuration' = d
  /\ effects' = [effects EXCEPT
                   !.downloads = @ + 1,
                   !.puts = IF protocolOf(uiData.audioUrl) = "s3:" THEN @ ELSE @ + 1]
  /\ tmpdir' = writtenThenUnlinkCalled(tmpdir,
                  audioTempFilePath(uiData.audioUrl, AudioUuid))
  /\ pc' = "SubtitleResolving"
  /\ UNCHANGED response
  /\ AudioLocals

AudioSchemeUnsupported ==
  /\ pc = "AudioResolving"
  /\ truthy(uiData.audioUrl)
  /\ ~audioSchemeSupported(uiData.audioUrl)
  /\ Respond500("Invalid audio URL format. Must be S3 or HTTP(S).")
  /\ UNCHANGED <<audioDuration, effects, tmpdir>>
  /\ AudioLocals

\* the download, the re-upload or the duration probe throws; a download
\* that fails may or may not have created the file
AudioFetchFailed ==
  /\ pc = "AudioResolving"
  /\ truthy(uiData.audioUrl)
  /\ audioSchemeSupported(uiData.audioUrl)
  /\ \E stage \in {"download", "put", "probe"}, created \in BOOLEAN :
       /\ stage = "put" => protocolOf(uiData.audioUrl) # "s3:"
       /\ stage # "download" => created
       /\ tmpdir' = IF created
                    THEN writtenThenUnlinkCalled(tmpdir,
                           audioTempFilePath(uiData.audioUrl, AudioUuid))
                    ELSE tmpdir
       /\ effects' = [effects EXCEPT
                        !.downloads = @ + 1,
                        !.puts = IF protocolOf(uiData.audioUrl) # "s3:"
                                    /\ stage \in {"put", "probe"}
                                 THEN @ + 1 ELSE @]
       /\ Respond500(IF stage = "probe"
                     THEN "Could not determine audio duration using get-mp3-duration."
                     ELSE "Failed to download audio")
  /\ UNCHANGED audioDuration
  /\ AudioLocals

\* Mutant: every scheme is fetched.
srtSchemeSupportedAny(url) == TRUE

\* if (uiData.srtFileUrl) { srtLines = await parseSrt(...); ... }
srtSchemeSupported(url) == protocolOf(url) \in {"s3:", "http:", "https:"}

SrtLocals ==
  UNCHANGED <<fnVars, req, uiData, audioDuration, finalVideoDurationSeconds,
              finalBackgroundVideoPath, props, progress, pollingTimeElapsedMs>>

SrtAbsent ==
  /\ pc = "SubtitleResolving"
  /\ ~truthy(uiData.srtFileUrl)
  /\ pc' = "DurationBudgeting"
  /\ UNCHANGED <<srtLines, calculatedHookEndFrame, srtDurationSeconds,
                 response, effects, tmpdir>>
  /\ SrtLocals


\* Mutant: a hook that is not found in the subtitles fails the request.
SrtParsedHookRequired ==
  /\ pc = "SubtitleResolving"
  /\ truthy(uiData.srtFileUrl)
  /\ srtSchemeSupported(uiData.srtFileUrl)
  /\ Effect("downloads")
  /\ tmpdir' = writtenThenUnlinkCalled(tmpdir,
                  srtTempFilePath(uiData.srtFileUrl, SrtUuid))
  /\ \E lines \in SrtResults :
       /\ srtLines' = lines
       /\ IF Len(lines) > 0
          THEN LET hookEnd == calculateHookEndFrame(uiData.hookText, lines, FPS,
                                                    HookEndDelayMs)
                   last == srtTimeToSeconds(lines[Len(lines)].endTime)
               IN IF hookEnd = TypeError \/ last = TypeError \/ hookEnd = 0
                  THEN /\ Respond500("Could not find hook text")
                       /\ UNCHANGED <<calculatedHookEndFrame, srtDurationSeconds>>
                  ELSE /\ calculatedHookEndFrame' = hookEnd
                       /\ srtDurationSeconds' = last
                       /\ pc' = "DurationBudgeting"
                       /\ UNCHANGED response
          ELSE /\ pc' = "DurationBudgeting"
               /\ UNCHANGED <<calculatedHookEndFrame, srtDurationSeconds, response>>
  /\ SrtLocals

SrtParsed ==
  /\ pc = "SubtitleResolving"
  /\ truthy(uiData.srtFileUrl)
  /\ srtSchemeSupported(uiData.srtFileUrl)
  /\ Effect("downloads")
  /\ tmpdir' = writtenThenUnlinkCalled(tmpdir,
                  srtTempFilePath(uiData.srtFileUrl, SrtUuid))
  /\ \E lines \in SrtResults :
       /\ srtLines' = lines
       /\ IF Len(lines) > 0
          THEN LET hookEnd == calculateHookEndFrame(uiData.hookText, lines, FPS,
                                                    HookEndDelayMs)
                   last == srtTimeToSeconds(lines[Len(lines)].endTime)
               IN IF hookEnd = TypeError \/ last = TypeError
                  THEN /\ Respond500("Cannot read properties of undefined")
                       /\ UNCHANGED <<calculatedHookEndFrame, srtDurationSeconds>>
                  ELSE /\ calculatedHookEndFrame' = hookEnd
                       /\ srtDurationSeconds' = last
                       /\ pc' = "DurationBudgeting"
                       /\ UNCHANGED response
          ELSE /\ pc' = "DurationBudgeting"
               /\ UNCHANGED <<calculatedHookEndFrame, srtDurationSeconds, response>>
  /\ SrtLocals

SrtSchemeUnsupported ==
  /\ pc = "SubtitleResolving"
  /\ truthy(uiData.srtFileUrl)
  /\ ~srtSchemeSupported(uiData.srtFileUrl)
  /\ Respond500("Unsupported SRT URL")
  /\ UNCHANGED <<srtLines, calculatedHookEndFrame, srtDurationSeconds, effects,
                 tmpdir>>
  /\ SrtLocals

SrtFetchFailed ==
  /\ pc = "SubtitleResolving"
  /\ truthy(uiData.srtFileUrl)
  /\ srtSchemeSupported(uiData.srtFileUrl)
  /\ Effect("downloads")
  /\ \E created \in BOOLEAN :
       tmpdir' = IF created
                 THEN writtenThenUnlinkCalled(tmpdir,
                        srtTempFilePath(uiData.srtFileUrl, SrtUuid))
                 ELSE tmpdir
  /\ Respond500("Failed to download SRT")
  /\ UNCHANGED <<srtLines, calculatedHookEndFrame, srtDurationSeconds>>
  /\ SrtLocals

\* Mutant: the SRT duration is preferred to the audio duration.
finalVideoDurationOfSrtFirst(audioMs, srtMs) ==
  IF srtMs > 0 THEN srtMs
  ELSE IF audioMs > 0 THEN audioMs
  ELSE 0

\* Priority: 1. audio duration (if > 0), 2. SRT duration (if > 0)
finalVideoDurationOf(audioMs, srtMs) ==
  IF audioMs > 0 THEN audioMs
  ELSE IF srtMs > 0 THEN srtMs
  ELSE 0

BudgetLocals ==
  UNCHANGED <<fnVars, tmpdir, req, uiData, audioDuration, srtLines,
              calculatedHookEndFrame, srtDurationSeconds,
              finalBackgroundVideoPath, props, progress, pollingTimeElapsedMs,
              effects>>

DurationIndeterminate ==
  /\ pc = "DurationBudgeting"
  /\ finalVideoDurationOf(audioDuration, srtDurationSeconds) <= 0
  /\ Respond(400, "Could not determine final video duration. Ensure audio or SRT is provided and valid.",
             Undefined, Undefined, Undefined)
  /\ UNCHANGED finalVideoDurationSeconds
  /\ BudgetLocals

DurationBudgeted ==
  /\ pc = "DurationBudgeting"
  /\ finalVideoDurationOf(audioDuration, srtDurationSeconds) > 0
  /\ finalVideoDurationSeconds' = finalVideoDurationOf(audioDuration, srtDurationSeconds)
  /\ pc' = "BackgroundSelecting"
  /\ UNCHANGED response
  /\ BudgetLocals

\* the background: the direct URL, else a random clip of the style, else none
BackgroundLocals ==
  UNCHANGED <<fnVars, tmpdir, req, uiData, audioDuration, srtLines,
              calculatedHookEndFrame, srtDurationSeconds,
              finalVideoDurationSeconds, props, progress,
              pollingTimeElapsedMs, response>>


\* Mutant: a style with clips is preferred to the direct URL.
BackgroundFromUrlStyleFirst ==
  /\ pc = "BackgroundSelecting"
  /\ truthy(uiData.backgroundVideoUrl)
  /\ IF uiData.backgroundVideoStyle # "custom"
     THEN \E contents \in Listings :
            /\ effects' = [effects EXCEPT !.listings = @ + 1, !.listed = contents]
            /\ finalBackgroundVideoPath' \in
                 IF getRandomBackgroundVideoS3(contents) = {Undefined}
                 THEN {uiData.backgroundVideoUrl}
                 ELSE getRandomBackgroundVideoS3(contents)
     ELSE /\ finalBackgroundVideoPath' = uiData.backgroundVideoUrl
          /\ UNCHANGED effects
  /\ pc' = "ParametersValidating"
  /\ BackgroundLocals

BackgroundFromUrl ==
  /\ pc = "BackgroundSelecting"
  /\ truthy(uiData.backgroundVideoUrl)
  /\ finalBackgroundVideoPath' = uiData.backgroundVideoUrl
  /\ pc' = "ParametersValidating"
  /\ UNCHANGED effects
  /\ BackgroundLocals


\* Mutant: a style without any clip fails the request.
BackgroundFromCatalogOrFail ==
  /\ pc = "BackgroundSelecting"
  /\ ~truthy(uiData.backgroundVideoUrl)
  /\ uiData.backgroundVideoStyle # "custom"
  /\ \E contents \in Listings :
       /\ effects' = [effects EXCEPT !.listings = @ + 1, !.listed = contents]
       /\ IF getRandomBackgroundVideoS3(contents) = {Undefined}
          THEN /\ Respond500("No background video found")
               /\ UNCHANGED finalBackgroundVideoPath
          ELSE /\ finalBackgroundVideoPath' \in getRandomBackgroundVideoS3(contents)
               /\ pc' = "ParametersValidating"
               /\ UNCHANGED response
  /\ UNCHANGED <<fnVars, tmpdir, req, uiData, audioDuration, srtLines,
                 calculatedHookEndFrame, srtDurationSeconds,
                 finalVideoDurationSeconds, props, progress,
                 pollingTimeElapsedMs>>

BackgroundFromCatalog ==
  /\ pc = "BackgroundSelecting"
  /\ ~truthy(uiData.backgroundVideoUrl)
  /\ uiData.backgroundVideoStyle # "custom"
  /\ \E contents \in Listings :
       /\ effects' = [effects EXCEPT !.listings = @ + 1, !.listed = contents]
       /\ finalBackgroundVideoPath' \in getRandomBackgroundVideoS3(contents)
  /\ pc' = "ParametersValidating"
  /\ BackgroundLocals

BackgroundNone ==
  /\ pc = "BackgroundSelecting"
  /\ ~truthy(uiData.backgroundVideoUrl)
  /\ uiData.backgroundVideoStyle = "custom"
  /\ pc' = "ParametersValidating"
  /\ UNCHANGED <<finalBackgroundVideoPath, effects>>
  /\ BackgroundLocals

\* validatedRemotionProps = remotionPropsSchema.parse(remotionPropsInput)
remotionPropsInput ==
  remotionPropsInputOf(uiData, calculatedHookEndFrame,
                       srtLinesToWordTimings(srtLines, FPS),
                       finalBackgroundVideoPath, finalVideoDurationSeconds)

ValidationLocals ==
  UNCHANGED <<fnVars, tmpdir, req, uiData, audioDuration, srtLines,
              calculatedHookEndFrame, srtDurationSeconds,
              finalVideoDurationSeconds, finalBackgroundVideoPath, progress,
              pollingTimeElapsedMs, effects>>

ParametersRejected ==
  /\ pc = "ParametersValidating"
  /\ ~remotionPropsSchemaAccepts(remotionPropsInput)
  /\ props' = remotionPropsInput
  /\ Respond500("ZodError")
  /\ ValidationLocals

ParametersValidated ==
  /\ pc = "ParametersValidating"
  /\ remotionPropsSchemaAccepts(remotionPropsInput)
  /\ props' = remotionPropsInput
  /\ pc' = "ParametersValidated"
  /\ UNCHANGED response
  /\ ValidationLocals

\* renderMediaOnLambda, then getRenderProgress until done, failed or timed out
RenderLocals ==
  UNCHANGED <<fnVars, tmpdir, req, uiData, audioDuration, srtLines,
              calculatedHookEndFrame, srtDurationSeconds,
              finalVideoDurationSeconds, finalBackgroundVideoPath, props>>

\* the Lambda configuration is missing, or renderMediaOnLambda throws
RenderSubmissionFailed ==
  /\ pc = "ParametersValidated"
  /\ \E configured \in BOOLEAN :
       /\ effects' = [effects EXCEPT
                        !.submissions = IF configured THEN @ + 1 ELSE @]
       /\ Respond500(IF configured THEN "renderMediaOnLambda failed"
                     ELSE "REMOTION_LAMBDA_FUNCTION_NAME and REMOTION_LAMBDA_SERVE_URL must be set in environment variables")
  /\ UNCHANGED <<progress, pollingTimeElapsedMs>>
  /\ RenderLocals


\* Mutant: the job is submitted before the parameters are validated.
RenderSubmittedUnvalidated ==
  /\ pc = "ParametersValidating"
  /\ Effect("submissions")
  /\ pc' = "RenderSubmitted"
  /\ UNCHANGED <<progress, pollingTimeElapsedMs, response>>
  /\ RenderLocals

RenderSubmitted ==
  /\ pc = "ParametersValidated"
  /\ Effect("submissions")
  /\ pc' = "RenderSubmitted"
  /\ UNCHANGED <<progress, pollingTimeElapsedMs, response>>
  /\ RenderLocals

\* let progress = await getRenderProgress(...)
FirstStatus ==
  /\ pc = "RenderSubmitted"
  /\ Effect("statusQueries")
  /\ \E status \in RenderStatuses : progress' = status
  /\ pc' = "RenderPolling"
  /\ UNCHANGED <<pollingTimeElapsedMs, response>>
  /\ RenderLocals

\* Mutant: the loop is left one interval late.
keepPollingPastLimit ==
  /\ progress.overallProgress < 100
  /\ ~progress.fatalErrorEncountered
  /\ pollingTimeElapsedMs <= maxPollingDurationMs

\* the condition of the while loop
keepPolling ==
  /\ progress.overallProgress < 100
  /\ ~progress.fatalErrorEncountered
  /\ pollingTimeElapsedMs < maxPollingDurationMs


\* Mutant: the loop only watches the clock.
PollAgainUntilTimeout ==
  /\ pc = "RenderPolling"
  /\ pollingTimeElapsedMs < maxPollingDurationMs
  /\ pollingTimeElapsedMs' = pollingTimeElapsedMs + pollingIntervalMs
  /\ Effect("statusQueries")
  /\ \E status \in RenderStatuses : progress' = status
  /\ UNCHANGED <<pc, response>>
  /\ RenderLocals

\* one iteration: wait pollingIntervalMs, then query again
PollAgain ==
  /\ pc = "RenderPolling"
  /\ keepPolling
  /\ pollingTimeElapsedMs' = pollingTimeElapsedMs + pollingIntervalMs
  /\ Effect("statusQueries")
  /\ \E status \in RenderStatuses : progress' = status
  /\ UNCHANGED <<pc, response>>
  /\ RenderLocals

\* getRenderProgress throws
StatusQueryFailed ==
  /\ \/ pc = "RenderSubmitted" /\ UNCHANGED pollingTimeElapsedMs
     \/ /\ pc = "RenderPolling" /\ keepPolling
        /\ pollingTimeElapsedMs' = pollingTimeElapsedMs + pollingIntervalMs
  /\ Effect("statusQueries")
  /\ Respond500("getRenderProgress failed")
  /\ UNCHANGED progress
  /\ RenderLocals

RenderFatalError ==
  /\ pc = "RenderPolling"
  /\ ~keepPolling
  /\ progress.fatalErrorEncountered
  /\ Respond500(renderFailedMessage(progress.errors))
  /\ UNCHANGED <<progress, pollingTimeElapsedMs, effects>>
  /\ RenderLocals

\* Mutant: a render without output file is answered as a success.
RenderNoOutputAnswered200 ==
  /\ pc = "RenderPolling"
  /\ ~keepPolling
  /\ ~progress.fatalErrorEncountered
  /\ progress.outputFile = Undefined
  /\ Respond(200, Undefined, Undefined,
             "Video generated and uploaded successfully!", Undefined)
  /\ UNCHANGED <<progress, pollingTimeElapsedMs, effects>>
  /\ RenderLocals

\* if (!progress.outputFile) throw new Error('Render completed but no ...')
RenderNoOutput ==
  /\ pc = "RenderPolling"
  /\ ~keepPolling
  /\ ~progress.fatalErrorEncountered
  /\ progress.outputFile = Undefined
  /\ Respond500("Render completed but no output file was generated")
  /\ UNCHANGED <<progress, pollingTimeElapsedMs, effects>>
  /\ RenderLocals

RenderSucceeded ==
  /\ pc = "RenderPolling"
  /\ ~keepPolling
  /\ ~progress.fatalErrorEncountered
  /\ progress.outputFile # Undefined
  /\ Respond(200, Undefined, Undefined,
             "Video generated and uploaded successfully!", progress.outputFile)
  /\ UNCHANGED <<progress, pollingTimeElapsedMs, effects>>
  /\ RenderLocals

\* the callback of fs.unlink(tempFilePath, ...): the removal is done by the
\* thread pool at some time after the call, which the handler does not await
UnlinkCompleted ==
  /\ \E path \in tmpdir.unlinks : tmpdir' = unlinked(tmpdir, path)
  /\ UNCHANGED <<fnVars, pc, req, uiData, audioDuration, srtLines,
                 calculatedHookEndFrame, srtDurationSeconds,
                 finalVideoDurationSeconds, finalBackgroundVideoPath, props,
                 progress, pollingTimeElapsedMs, response, effects>>

Next ==
  \/ MethodNotAllowed
  \/ InvalidBody
  \/ BodyAccepted
  \/ AudioAbsent
  \/ AudioProbed
  \/ AudioSchemeUnsupported
  \/ AudioFetchFailed
  \/ SrtAbsent
  \/ SrtParsed
  \/ SrtSchemeUnsupported
  \/ SrtFetchFailed
  \/ DurationIndeterminate
  \/ DurationBudgeted
  \/ BackgroundFromUrl
  \/ BackgroundFromCatalog
  \/ BackgroundNone
  \/ ParametersRejected
  \/ ParametersValidated
  \/ RenderSubmissionFailed
  \/ RenderSubmitted
  \/ FirstStatus
  \/ PollAgain
  \/ StatusQueryFailed
  \/ RenderFatalError
  \/ RenderNoOutput
  \/ RenderSucceeded
  \/ UnlinkCompleted

Spec == Init /\ [][Next]_vars

\* ------------------------------------- the render call of one request
\* The handler at the call of the render function, for a request with an
\* audio file of 2 s and nothing else; its scratch file is already removed.
PollBody ==
  BodyWith("chan", <<"a", " ", "b">>, HttpsAudio, Undefined, "custom",
           Undefined, "none")

PollInit ==
  /\ FnIdle
  /\ pc = "ParametersValidated"
  /\ req = [method |-> "POST", body |-> PollBody]
  /\ uiData = PollBody
  /\ audioDuration = 2000
  /\ srtLines = <<>>
  /\ calculatedHookEndFrame = 0
  /\ srtDurationSeconds = 0
  /\ finalVideoDurationSeconds = 2000
  /\ finalBackgroundVideoPath = Undefined
  /\ props = remotionPropsInputOf(PollBody, 0, srtLinesToWordTimings(<<>>, FPS),
                                  Undefined, 2000)
  /\ progress = NoProgress
  /\ pollingTimeElapsedMs = 0
  /\ response = NoResponse
  /\ effects = [NoEffects EXCEPT !.bodyValidations = 1, !.downloads = 1,
                                 !.puts = 1]
  /\ tmpdir = EmptyTmpdir

PollNext ==
  \/ RenderSubmissionFailed
  \/ RenderSubmitted
  \/ FirstStatus
  \/ PollAgain
  \/ StatusQueryFailed
  \/ RenderFatalError
  \/ RenderNoOutput
  \/ RenderSucceeded

\* every awaited call of the render function settles, and the timer fires
SpecPoll == PollInit /\ [][PollNext]_vars /\ WF_vars(PollNext)

\* The Series.Sequence durations that BackgroundVideo builds from the
\* background handed over in the submitted parameters (none when
\* backgroundVideoPath is absent).
backgroundSegments ==
  IF props.backgroundVideoPath = Undefined THEN <<>>
  ELSE BackgroundVideo(<<[path |-> props.backgroundVideoPath, durationInFrames |-> 0]>>,
                       props.totalDurationInFrames)

\* ======================================================== claims C1 .. C5
\* The inputs and result of the call, and the claims' own reading of them.
hookWords == normalizedHookWordsOf(hookArg.hookText)
hookLines == hookArg.srtLines

PhraseAt(i) ==
  /\ i + Len(hookWords) - 1 <= Len(hookLines)
  /\ \A j \in 1..Len(hookWords) :
        normalizeWord(hookLines[i + j - 1].text) = hookWords[j]

PhrasePositions == {i \in 1..Len(hookLines) : PhraseAt(i)}

LastWordPositions ==
  {i \in 1..Len(hookLines) :
     normalizeWord(hookLines[i].text) = hookWords[Len(hookWords)]}

Least(S) == CHOOSE m \in S : \A k \in S : m <= k

FrameOfLine(i) ==
  ((srtTimeToSeconds(hookLines[i].endTime) + HookEndDelayMs) * FPS) \div 1000

\* C1: when the normalized hook words are non-empty and the phrase occurs as
\* a run of consecutive entries, the result is the frame of the last entry of
\* the leftmost occurrence.
C1_FullPhraseFirstMatch ==
  (hookPc = "done" /\ Len(hookWords) > 0 /\ PhrasePositions # {})
    => hookRet = FrameOfLine(Least(PhrasePositions) + Len(hookWords) - 1)

\* Two occurrences whose last entries end at different times; the leftmost won.
C1_Witness ==
  /\ hookPc = "done" /\ Len(hookWords) > 0
  /\ \E i, k \in PhrasePositions :
        /\ i < k
        /\ FrameOfLine(i + Len(hookWords) - 1) # FrameOfLine(k + Len(hookWords) - 1)
  /\ hookRet = FrameOfLine(Least(PhrasePositions) + Len(hookWords) - 1)

\* C2: when the phrase does not occur and several entries equal the last hook
\* word, the result is the frame of the first such entry.
C2_LastWordFirstEntry ==
  (hookPc = "done" /\ Len(hookWords) > 0 /\ PhrasePositions = {}
     /\ Cardinality(LastWordPositions) >= 2)
    => hookRet = FrameOfLine(Least(LastWordPositions))

\* C3: when the phrase does not occur and exactly one entry equals the last
\* hook word, the result is that entry's frame, and it is not 0.
C3_LastWordFallback ==
  (hookPc = "done" /\ Len(hookWords) > 0 /\ PhrasePositions = {}
     /\ Cardinality(LastWordPositions) = 1)
    => /\ hookRet = FrameOfLine(Least(LastWordPositions))
       /\ hookRet # 0

C3_Witness ==
  /\ hookPc = "done" /\ Len(hookWords) >= 2 /\ PhrasePositions = {}
  /\ Cardinality(LastWordPositions) = 1
  /\ Len(hookLines) >= 2
  /\ hookRet = FrameOfLine(Least(LastWordPositions))

\* C4: the result is 0 exactly when the hook has no normalized word, or there
\* is no entry, or neither pass matches; a match gives a frame above 0.
NoMatch ==
  \/ Len(hookWords) = 0
  \/ Len(hookLines) = 0
  \/ (PhrasePositions = {} /\ LastWordPositions = {})

C4_ZeroIffNoMatch ==
  hookPc = "done" => /\ (hookRet = 0 <=> NoMatch)
                     /\ (~NoMatch => hookRet > 0)

\* A matched entry that ends at time 0 still gives a positive frame.
C4_Witness ==
  /\ hookPc = "done" /\ ~NoMatch /\ hookRet > 0
  /\ \E i \in PhrasePositions \cup LastWordPositions :
        srtTimeToSeconds(hookLines[i].endTime) = 0

\* C5: normalizeWord is idempotent.
C5_NormalizeIdempotent ==
  normPc = "twice" => normTwice = normOnce

\* ======================================================= claims C6 .. C10
Submitted == effects.submissions > 0

listedVideoFiles == {k \in effects.listed \ {"error"} : k # ClipFolderKey}

PastBudgeting ==
  pc \in {"BackgroundSelecting", "ParametersValidating", "ParametersValidated",
          "RenderSubmitted", "RenderPolling"}

C7_DurationPriority ==
  /\ [](PastBudgeting =>
          /\ finalVideoDurationSeconds > 0
          /\ finalVideoDurationSeconds =
               (IF audioDuration > 0 THEN audioDuration ELSE srtDurationSeconds))
  /\ [](Submitted =>
          props.totalDurationInFrames =
            ((IF audioDuration > 0 THEN audioDuration ELSE srtDurationSeconds)
               * FPS + 999) \div 1000)
  /\ [][(pc = "DurationBudgeting" /\ pc' # pc
          /\ audioDuration <= 0 /\ srtDurationSeconds <= 0)
          => (pc' = "Responded" /\ response'.status = 400
              /\ effects'.submissions = 0)]_vars
  /\ [][(pc = "DurationBudgeting" /\ pc' # pc
          /\ (audioDuration > 0 \/ srtDurationSeconds > 0))
          => pc' = "BackgroundSelecting"]_vars

\* Audio and subtitles both give a duration, they differ, the audio's is used.
C7_Witness ==
  /\ pc = "RenderSubmitted"
  /\ audioDuration > 0 /\ srtDurationSeconds > 0
  /\ audioDuration # srtDurationSeconds
  /\ finalVideoDurationSeconds = audioDuration
  /\ props.totalDurationInFrames = (audioDuration * FPS + 999) \div 1000

\* C8: a POST whose body fails the UI form schema is answered 400 with an
\* error and details, and nothing is fetched, listed or submitted.
BodyFailsUiSchema(body) ==
  \/ body.channelName \in {Undefined, ""}
  \/ body.hookText = <<>>

NothingFetchedListedSubmitted ==
  /\ effects.downloads = 0 /\ effects.puts = 0
  /\ effects.listings = 0
  /\ effects.submissions = 0 /\ effects.statusQueries = 0

C8_InvalidBodyIs400 ==
  (req.method = "POST" /\ BodyFailsUiSchema(req.body))
    => /\ NothingFetchedListedSubmitted
       /\ \/ pc = "Received"
          \/ /\ pc = "Responded"
             /\ response.status = 400
             /\ response.error # Undefined
             /\ response.details # Undefined

\* channelName is missing from a body that names an audio file and subtitles.
C8_Witness ==
  /\ pc = "Responded" /\ req.method = "POST"
  /\ req.body.channelName = Undefined
  /\ req.body.hookText # <<>>
  /\ req.body.audioUrl = S3Audio /\ req.body.srtFileUrl = S3Srt
  /\ response.status = 400 /\ response.details # Undefined
  /\ NothingFetchedListedSubmitted

\* C9: when the assembled parameters fail the render-parameter schema, the
\* answer is a 4xx, not a 5xx, and no render job is submitted.
C9_ParameterFailureIs4xx ==
  [][(pc = "ParametersValidating" /\ pc' # pc
      /\ ~remotionPropsSchemaAccepts(remotionPropsInput))
       => (response'.status \in 400..499 /\ effects'.submissions = 0)]_vars

\* C10: a request with a method other than POST is answered 405, and its body
\* is not validated, nothing is fetched, listed or submitted.
C10_NonPostIs405 ==
  req.method # "POST"
    => /\ NothingFetchedListedSubmitted
       /\ effects.bodyValidations = 0
       /\ \/ pc = "Received"
          \/ pc = "Responded" /\ response.status = 405

\* A GET whose body would pass the schema and names assets.
C10_Witness ==
  /\ pc = "Responded" /\ req.method = "GET"
  /\ uiFormSchemaAccepts(req.body)
  /\ req.body.audioUrl = HttpsAudio
  /\ response.status = 405
  /\ effects = NoEffects

\* ====================================================== claims C11 .. C20
\* C11: the polling loop is bounded: after the first status query at most
\* maxPollingDurationMs / pollingIntervalMs (8) further queries are made, one
\* per interval waited, whatever statuses the render service answers.
MaxFurtherQueries == maxPollingDurationMs \div pollingIntervalMs

QueriesWithinBudget ==
  /\ effects.statusQueries <= 1 + MaxFurtherQueries
  /\ pollingTimeElapsedMs <= maxPollingDurationMs
  /\ effects.statusQueries >= 1 =>
        pollingTimeElapsedMs = (effects.statusQueries - 1) * pollingIntervalMs
  /\ effects.statusQueries = 0 => pollingTimeElapsedMs = 0

C11_PollingBounded ==
  /\ []QueriesWithinBudget
  /\ (pc = "RenderSubmitted") ~> (pc = "Responded")

\* the budget is used up by a render that never finishes and never fails
C11_Witness ==
  /\ pc = "Responded"
  /\ effects.statusQueries = 1 + MaxFurtherQueries
  /\ progress.overallProgress < 100
  /\ ~progress.fatalErrorEncountered

\* C12: on poll-timeout (the budget is used up, the progress is below 1 and
\* no fatal error was reported) the caller is handed the last known status:
\* the request is not answered with a failure.
PollTimedOut ==
  /\ pc = "RenderPolling"
  /\ pollingTimeElapsedMs >= maxPollingDurationMs
  /\ progress.overallProgress < 100
  /\ ~progress.fatalErrorEncountered

C12_TimeoutReturnsLastStatus ==
  [][(PollTimedOut /\ pc' = "Responded")
       => (response'.status \notin 500..599 /\ progress' = progress)]_vars

\* C12, as the code has it: on poll-timeout no further status query is made
\* and the request is answered from the last known status at once: 500
\* "Render completed but no output file was generated" when that status has
\* no output file, 200 with its output file otherwise.
C12_TimeoutAnswersFromLastStatus ==
  [][(PollTimedOut /\ pc' = "Responded")
       => /\ progress' = progress
          /\ effects' = effects
          /\ IF progress.outputFile = Undefined
             THEN /\ response'.status = 500
                  /\ response'.details =
                       "Render completed but no output file was generated"
             ELSE /\ response'.status = 200
                  /\ response'.videoUrl = progress.outputFile]_vars

C12_Witness ==
  /\ pc = "Responded"
  /\ pollingTimeElapsedMs = maxPollingDurationMs
  /\ progress.overallProgress < 100
  /\ ~progress.fatalErrorEncountered
  /\ progress.outputFile = Undefined
  /\ response.status = 500
  /\ response.details = "Render completed but no output file was generated"

\* C13: when a fetch call completes, by returning or by raising, the scratch
\* file it created is no longer at its path.
FetchCompletes(c) ==
  calls[c].pc \notin FetchDone /\ calls'[c].pc \in FetchDone

C13_ScratchGoneAtCompletion ==
  [][\A c \in Calls : FetchCompletes(c) => calls'[c].path \notin scratch']_vars

C15_ScratchPathsUnique ==
  \A c1, c2 \in Calls :
    (c1 # c2 /\ calls[c1].path # NoPath /\ calls[c2].path # NoPath)
      => calls[c1].path # calls[c2].path

\* C16: a call that returns has put the bytes into the bucket exactly when
\* its locator is http(s).
C16_HttpFetchReuploads ==
  \A c \in Calls :
    calls[c].pc = "returned"
      => (calls[c].puts = 1 <=> protocolOf(calls[c].locator) \in {"http:", "https:"})

\* C16, as the code has it: only an audio fetch from an http(s) locator puts
\* the bytes into the bucket (under UploadedAudio/) before it returns; an
\* audio fetch from s3 and every subtitle fetch make no put.
C16_HttpAudioFetchReuploads ==
  \A c \in Calls :
    calls[c].pc = "returned"
      => (calls[c].puts = 1 <=>
            (calls[c].kind = "audio"
             /\ protocolOf(calls[c].locator) \in {"http:", "https:"}))

C16_Witness ==
  \E c1, c2 \in Calls :
    /\ calls[c1].pc = "returned" /\ calls[c1].locator = HttpsAudio
    /\ calls[c1].puts = 1
    /\ calls[c2].pc = "returned" /\ calls[c2].locator = HttpsSrt
    /\ calls[c2].puts = 0

\* C17: a fetch of a locator whose scheme is neither s3 nor http(s) fails
\* without any download or upload, and its request is answered with a
\* failure, never 200.
UnsupportedScheme(url) ==
  truthy(url) /\ protocolOf(url) \notin {"s3:", "http:", "https:"}

FailsWithoutTransfer ==
  /\ effects' = effects
  /\ tmpdir' = tmpdir
  /\ pc' = "Responded"
  /\ response'.status \in 400..599

C17_UnsupportedSchemeFails ==
  /\ [][(pc = "AudioResolving" /\ pc' # pc /\ UnsupportedScheme(uiData.audioUrl))
          => FailsWithoutTransfer]_vars
  /\ [][(pc = "SubtitleResolving" /\ pc' # pc
          /\ UnsupportedScheme(uiData.srtFileUrl))
          => FailsWithoutTransfer]_vars
  /\ [](response.status = 200
          => /\ ~UnsupportedScheme(uiData.audioUrl)
             /\ ~UnsupportedScheme(uiData.srtFileUrl))

\* the audio was fetched from s3, the subtitles are named by an ftp locator
C17_Witness ==
  /\ pc = "Responded"
  /\ uiData.audioUrl = S3Audio /\ uiData.srtFileUrl = FtpSrt
  /\ effects.downloads = 1 /\ effects.puts = 0
  /\ response.status = 500
  /\ response.details = "Unsupported SRT URL"

\* C18: a polled status that reports a fatal error is answered with a 5xx
\* whose details carry the message of the render service, and never with
\* 200, whether or not the status has an output file.
C18_FatalErrorIs5xx ==
  /\ [][(pc = "RenderPolling" /\ pc' # pc /\ progress.fatalErrorEncountered)
          => /\ pc' = "Responded"
             /\ response'.status \in 500..599
             /\ progress.errors # <<>> =>
                  /\ progress.errors[1].message = "lambda error"
                  /\ response'.details = "Render failed: lambda error"]_vars
  /\ [](response.status = 200 => ~progress.fatalErrorEncountered)

C18_Witness ==
  /\ pc = "Responded"
  /\ progress.fatalErrorEncountered
  /\ progress.errors # <<>>
  /\ progress.outputFile = RenderOutput
  /\ progress.overallProgress = 100
  /\ response.status = 500
  /\ response.details = "Render failed: lambda error"

\* C19: for a valid HH:MM:SS,mmm string srtTimeToSeconds gives exactly
\* HH*3600 + MM*60 + SS seconds and mmm milliseconds.
C19_TimestampExact ==
  timePc = "done" =>
    \A h \in ValidHours, m \in ValidMinutes, sec \in ValidSeconds,
       ms \in ValidMillis :
      timeArg = timestampOf(h, m, sec, ms)
        => timeRet = (h * 3600 + m * 60 + sec) * 1000 + ms

\* 00:01:02,500 gives 62.5 s
C19_Witness ==
  /\ timePc = "done"
  /\ timeArg = <<"0", "0", ":", "0", "1", ":", "0", "2", ",", "5", "0", "0">>
  /\ timeRet = 62500

\* C20: for an input that is neither HH:MM:SS,mmm nor a decimal number of
\* seconds, srtTimeToSeconds raises an error; it returns no number and no NaN.
isTimestampShape(str) ==
  /\ Len(str) = 12
  /\ str[3] = ":" /\ str[6] = ":" /\ str[9] = ","
  /\ \A i \in {1, 2, 4, 5, 7, 8, 10, 11, 12} : str[i] \in Digits

isDecimalSeconds(str) ==
  /\ \E i \in 1..Len(str) : str[i] \in Digits
  /\ \A i \in 1..Len(str) : str[i] \in Digits \cup {"."}
  /\ Cardinality({i \in 1..Len(str) : str[i] = "."}) <= 1

C20_MalformedTimestampRaises ==
  (timePc = "done" /\ ~isTimestampShape(timeArg) /\ ~isDecimalSeconds(timeArg))
    => timeRet = TypeError

\* ====================================================== claims C21 .. C30

\* The listing of the style's folder gave no usable clip: it threw, or it
\* held no key, or only the key of the folder itself.
ListingGaveNoClip ==
  /\ effects.listings = 1
  /\ getRandomBackgroundVideoS3(effects.listed) = {Undefined}

\* C21: when the listing of background clips is empty or the listing call
\* fails, the request is not failed: the handler goes on to assemble and
\* validate the parameters, with no background video path, and the render
\* job is submitted with that absent path.
C21_EmptyListingContinuesStep ==
  [][(pc = "BackgroundSelecting" /\ pc' # pc /\ ListingGaveNoClip')
       => /\ pc' = "ParametersValidating"
          /\ response' = NoResponse
          /\ finalBackgroundVideoPath' = Undefined]_vars

C21_EmptyListingContinues ==
  /\ C21_EmptyListingContinuesStep
  /\ [](ListingGaveNoClip /\ pc \in {"ParametersValidated", "RenderSubmitted", "RenderPolling"}
          => props.backgroundVideoPath = Undefined /\ response = NoResponse)

\* the listing call failed and the video was rendered all the same
C21_Witness ==
  /\ effects.listed = {"error"}
  /\ ListingGaveNoClip
  /\ effects.submissions = 1
  /\ props.backgroundVideoPath = Undefined
  /\ response.status = 200

\* the listing held only the key of the folder, and the job was submitted
C21_WitnessEmptyFolder ==
  /\ effects.listed \in {{}, {ClipFolderKey}}
  /\ ListingGaveNoClip
  /\ effects.submissions = 1

\* The subtitles were parsed to at least one entry and the hook aligner
\* found neither the phrase nor its last word in them.
HookNotFound ==
  /\ Len(srtLines) > 0
  /\ calculateHookEndFrame(uiData.hookText, srtLines, FPS, HookEndDelayMs) = 0

EmptyOptionalUrl ==
  \E f \in OptionalUrlFields \cup {"backgroundVideoUrl"} : uiData[f] = ""

\* C22: when the hook aligner finds no match in a non-empty subtitle sequence
\* it returns 0 and the request goes on: the hook duration of the parameters
\* is 0, the validation does not reject them for it, and the render job is
\* submitted with hookDurationInSeconds = 0.
C22_NoMatchStep ==
  [][/\ (/\ pc = "SubtitleResolving" /\ pc' # pc
         /\ Len(srtLines') > 0
         /\ calculateHookEndFrame(uiData.hookText, srtLines', FPS,
                                  HookEndDelayMs) = 0)
          => /\ pc' = "DurationBudgeting"
             /\ response' = NoResponse
             /\ calculatedHookEndFrame' = 0
     /\ (pc = "ParametersValidating" /\ pc' # pc /\ HookNotFound)
          => /\ props'.hookDurationInSeconds = 0
             /\ pc' = "Responded" => EmptyOptionalUrl]_vars

C22_NoMatchProceedsWithZeroHook ==
  /\ C22_NoMatchStep
  /\ [](HookNotFound /\ effects.submissions > 0
          => props.hookDurationInSeconds = 0)

\* the hook 'a b' against the single entry 'a b': no entry is the word 'a'
\* followed by an entry 'b', and no entry is the word 'b'
C22_Witness ==
  /\ HookNotFound
  /\ uiData.hookText = <<"a", " ", "b">>
  /\ effects.submissions = 1
  /\ props.hookDurationInSeconds = 0
  /\ pc = "RenderSubmitted"

\* n is the floor of timeMs / 1000 * fps
IsFloorFrame(n, timeMs, fps) ==
  n * 1000 <= timeMs * fps /\ timeMs * fps < (n + 1) * 1000

\* C23: srtLinesToWordTimings returns exactly one WordTiming per subtitle
\* entry, in the order of the entries, with the entry's text,
\* startFrame = floor(startTime * fps) and endFrame = floor(endTime * fps);
\* for an entry with startTime <= endTime, 0 <= startFrame <= endFrame.
C23_OneTimingPerEntry ==
  timingPc = "done" =>
    /\ Len(timingRet) = Len(timingArg)
    /\ \A k \in 1..Len(timingArg) :
         /\ timingRet[k].text = timingArg[k].text
         /\ \A s \in TimingTimesMs, e \in TimingTimesMs :
              (/\ timingArg[k].startTime = srtTimestamp(s)
               /\ timingArg[k].endTime = srtTimestamp(e))
                => /\ IsFloorFrame(timingRet[k].startFrame, s, FPS)
                   /\ IsFloorFrame(timingRet[k].endFrame, e, FPS)
                   /\ s <= e => /\ 0 <= timingRet[k].startFrame
                                /\ timingRet[k].startFrame <= timingRet[k].endFrame

\* 'b' from 0.034 s to 1.050 s, then 'a' from 0 s to 0.034 s: frames 1..31
\* and 0..1, in that order
C23_Witness ==
  /\ timingPc = "done"
  /\ timingArg = <<SrtLine(<<"b">>, 34, 1050), SrtLine(<<"a">>, 0, 34)>>
  /\ timingRet = <<[text |-> <<"b">>, startFrame |-> 1, endFrame |-> 31],
                   [text |-> <<"a">>, startFrame |-> 0, endFrame |-> 1]>>

\* the render parameters of the request have been assembled
PropsAssembled == props.totalDurationInFrames > 0

\* C24: a non-empty backgroundVideoUrl overrides the style: the
\* backgroundVideoPath of the render parameters equals it and no listing of
\* the catalog is made, whatever backgroundVideoStyle is; a listing is made
\* only when no URL is given and the style is not 'custom'.
C24_DirectUrlOverridesStyle ==
  /\ truthy(uiData.backgroundVideoUrl)
       => /\ effects.listings = 0
          /\ PropsAssembled => props.backgroundVideoPath = uiData.backgroundVideoUrl
  /\ effects.listings > 0
       => /\ ~truthy(uiData.backgroundVideoUrl)
          /\ uiData.backgroundVideoStyle # "custom"

\* style 'satisfying' with a direct URL: submitted with that URL, no listing
C24_Witness ==
  /\ uiData.backgroundVideoUrl = CustomBackgroundUrl
  /\ uiData.backgroundVideoStyle = "satisfying"
  /\ effects.submissions = 1
  /\ effects.listings = 0
  /\ props.backgroundVideoPath = CustomBackgroundUrl

\* no URL and style 'satisfying': the catalog is listed
C24_WitnessListed ==
  /\ uiData.backgroundVideoUrl \in {Undefined, ""}
  /\ effects.listings = 1
  /\ effects.submissions = 1

\* the message texts of the errors that the collaborators and the handler's
\* own checks raise
ErrorMessages ==
  {"Invalid audio URL format. Must be S3 or HTTP(S).",
   "Could not determine audio duration using get-mp3-duration.",
   "Failed to download audio",
   "Cannot read properties of undefined",
   "Unsupported SRT URL",
   "Failed to download SRT",
   "ZodError",
   "renderMediaOnLambda failed",
   "REMOTION_LAMBDA_FUNCTION_NAME and REMOTION_LAMBDA_SERVE_URL must be set in environment variables",
   "getRenderProgress failed",
   "Render completed but no output file was generated"}
    \cup {renderFailedMessage(errors) : errors \in RenderErrors}

SchemaValidPost == req.method = "POST" /\ uiFormSchemaAccepts(req.body)

\* a step of the handler itself (not the callback of a removal), other
\* than the validation of the parameters
HandlerStep ==
  \/ MethodNotAllowed \/ InvalidBody \/ BodyAccepted
  \/ AudioAbsent \/ AudioProbed \/ AudioSchemeUnsupported \/ AudioFetchFailed
  \/ SrtAbsent \/ SrtParsed \/ SrtSchemeUnsupported \/ SrtFetchFailed
  \/ DurationIndeterminate \/ DurationBudgeted
  \/ BackgroundFromUrl \/ BackgroundFromCatalog \/ BackgroundNone
  \/ RenderSubmissionFailed \/ RenderSubmitted
  \/ FirstStatus \/ PollAgain \/ StatusQueryFailed
  \/ RenderFatalError \/ RenderNoOutput \/ RenderSucceeded

\* remotionPropsSchema.parse either returns or throws: the guards of
\* ParametersValidated and ParametersRejected are each other's negation
CanContinue == pc = "ParametersValidating" \/ ENABLED HandlerStep

WellFormedResponse ==
  \/ /\ response.status = 200
     /\ response.message = "Video generated and uploaded successfully!"
     /\ response.videoUrl # Undefined
     /\ remotionPropsSchemaAccepts(props)
     /\ response.error = Undefined /\ response.details = Undefined
  \/ /\ response.status = 400
     /\ response.error # Undefined
     /\ response.details = Undefined
     /\ response.message = Undefined /\ response.videoUrl = Undefined
  \/ /\ response.status = 500
     /\ response.error = "Video generation failed."
     /\ response.details \in ErrorMessages
     /\ response.message = Undefined /\ response.videoUrl = Undefined

\* C25: every error raised during the orchestration is caught by the
\* handler, so a POST request with a schema-valid body always has a next
\* step until it is answered, and it is answered exactly once (the handler
\* takes no step after the response): 200 with message, videoUrl and the
\* validated parameters, or 400, or 500 with {error, details} where details
\* is the message text of the error.
C25_OneStructuredResponse ==
  SchemaValidPost =>
    /\ pc # "Responded" => response = NoResponse /\ CanContinue
    /\ pc = "Responded" => WellFormedResponse /\ ~CanContinue

\* the render collaborator reported a fatal error: 500 with its message
C25_Witness ==
  /\ SchemaValidPost
  /\ pc = "Responded"
  /\ response.status = 500
  /\ response.details = "Render failed: lambda error"
  /\ effects.submissions = 1

\* C26: the order of a request's steps: the render job is submitted at most
\* once, only from the state in which the parameters have passed validation,
\* which is only reached after a total duration > 0 was determined; so
\* every submitted job has totalDurationInFrames > 0, and a request answered
\* 400 or 405 has submitted no job.
C26_SubmissionStep ==
  [][/\ effects'.submissions # effects.submissions
          => /\ pc = "ParametersValidated"
             /\ effects.submissions = 0 /\ effects'.submissions = 1
     /\ (pc' = "ParametersValidated" /\ pc' # pc)
          => /\ pc = "ParametersValidating"
             /\ remotionPropsSchemaAccepts(props')
             /\ finalVideoDurationSeconds > 0
     /\ (pc' = "ParametersValidating" /\ pc' # pc)
          => pc = "BackgroundSelecting" /\ finalVideoDurationSeconds > 0]_vars

C26_SubmissionOrdered ==
  /\ C26_SubmissionStep
  /\ [](/\ effects.submissions <= 1
        /\ effects.submissions > 0
             => /\ remotionPropsSchemaAccepts(props)
                /\ props.totalDurationInFrames > 0
                /\ finalVideoDurationSeconds > 0
        /\ response.status \in {400, 405} => effects.submissions = 0)

\* a job submitted for an audio of 0.5 s: 15 frames
C26_Witness ==
  /\ effects.submissions = 1
  /\ pc = "RenderSubmitted"
  /\ finalVideoDurationSeconds = 500
  /\ props.totalDurationInFrames = 15

\* answered 400 after the subtitles were fetched: nothing submitted
C26_WitnessNoDuration ==
  /\ response.status = 400
  /\ effects.downloads > 0
  /\ effects.submissions = 0

\* The entry that the older calculateHookEndFrame matches: the first one
\* whose text, lower-cased, trimmed and stripped of punctuation, includes
\* the cleaned hook phrase (0 if none).
OldCleanedHook == replaceTrailingPunctRun(trim(toLowerCase(hookArg.hookText)))

OldMatchedEntry ==
  IF trim(hookArg.hookText) = <<>> THEN 0
  ELSE LET hits == {k \in 1..Len(hookArg.srtLines) :
                      includes(cleanedSrtLineText(hookArg.srtLines[k]),
                               OldCleanedHook)}
       IN IF hits = {} THEN 0
          ELSE CHOOSE k \in hits : \A q \in hits : k <= q

\* C27: in calculateHookEndFrame of pages/api/create-video.ts, when an entry
\* with end time e (seconds) is matched, the returned frame is
\* floor((e + 0.25) * 30), for every e >= 0, also when e * fps < 1.
C27_OldHookFrameIncludesDelay ==
  (hookPc = "done" /\ OldMatchedEntry > 0) =>
    \A e \in OldSrtEndTimesMs :
      hookArg.srtLines[OldMatchedEntry].endTime = srtTimestamp(e)
        => hookRet = ((e + HookEndDelayMs) * FPS) \div 1000

\* the sum of the two floors is the floor of the sum for e = 1 s: 30 + 7
C27_OldHookAgreesAtWholeFrames ==
  /\ hookPc = "done"
  /\ OldMatchedEntry > 0
  /\ hookArg.srtLines[OldMatchedEntry].endTime = srtTimestamp(1000)
  /\ hookRet = 37

\* C28: every body that uiFormSchema accepts and for which a total duration
\* > 0 was determined gives parameters that remotionPropsSchema accepts; the
\* optional URL fields that the UI schema lets be '' do not make the later
\* validation fail.
C28_AcceptedBodyPassesValidation ==
  (/\ pc = "ParametersValidating"
   /\ uiFormSchemaAccepts(uiData)
   /\ finalVideoDurationSeconds > 0)
    => remotionPropsSchemaAccepts(remotionPropsInput)

\* without an empty-string URL field the parameters do pass
C28_PassesWithoutEmptyUrl ==
  (pc = "ParametersValidating" /\ ~EmptyOptionalUrl)
    => remotionPropsSchemaAccepts(remotionPropsInput)

\* a status that ends the polling: progress 1 or a fatal error
FinalStatus ==
  progress.overallProgress >= 100 \/ progress.fatalErrorEncountered

\* C29: a 200 response is only produced when the last polled render status
\* had no fatal error and carried an output file, and its videoUrl is that
\* output file; no status query is made after a status that reports
\* progress 1 or a fatal error.
C29_NoQueryAfterFinalStatus ==
  [][(effects'.statusQueries # effects.statusQueries /\ effects.statusQueries > 0)
       => ~FinalStatus]_vars

C29_SuccessFromLastStatus ==
  /\ C29_NoQueryAfterFinalStatus
  /\ [](response.status = 200
          => /\ effects.statusQueries > 0
             /\ ~progress.fatalErrorEncountered
             /\ progress.outputFile # Undefined
             /\ response.videoUrl = progress.outputFile)

\* the second status reported progress 1 with an output file: 200, two queries
C29_Witness ==
  /\ response.status = 200
  /\ response.videoUrl = RenderOutput
  /\ progress.overallProgress = 100
  /\ effects.statusQueries = 2

\* C30: in every parameters object submitted for rendering the end of the
\* hook is not later than the end of the video:
\* hookDurationInSeconds * fps <= totalDurationInFrames
\* (props.hookDurationInSeconds is held in frames, calculatedHookEndFrame).
C30_HookWithinTotalDuration ==
  effects.submissions > 0
    => props.hookDurationInSeconds <= props.totalDurationInFrames

\* the same for a total duration taken from the subtitles only
C30_HookWithinSubtitleDuration ==
  (effects.submissions > 0 /\ audioDuration = 0)
    => props.hookDurationInSeconds <= props.totalDurationInFrames

\* a hook that was not found (0 frames) is within any duration
C30_UnmatchedHookWithinDuration ==
  /\ effects.submissions > 0
  /\ props.hookDurationInSeconds = 0
  /\ props.totalDurationInFrames > 0

====
